---- MODULE Spec2Model ----
(***************************************************************************)
(* Model of the Dockit schema-extraction server                            *)
(* (schema-extraction-server.py) and of the ONNX export script             *)
(* (scripts/export-onnx.py).                                               *)
(*                                                                         *)
(* A Python str is a sequence of one-character strings, so that lower(),   *)
(* strip(), replace(), split(), capitalize(), join() and the `in` test are  *)
(* computed character by character.  A JSON value is a record               *)
(* [t |-> kind, s |-> characters]; s is the text of a string and <<>> for   *)
(* every other kind.                                                       *)
(***************************************************************************)
EXTENDS Integers, Sequences, FiniteSets, TLC

VARIABLES
    clock,          \* datetime.now(), read by the handlers
    phase,          \* "idle" | "pending" | "done": the request being served
    route,          \* "generate-schema" | "health" | "none"
    request,        \* the body of the request being served
    response,       \* the outcome of the handler for that request
    remembered,     \* history: one earlier exchange kept by an observer
    pc,             \* export-onnx.py: position of the script
    files,          \* export-onnx.py: paths that exist on disk
    out,            \* export-onnx.py: what the script has printed
    exported,       \* export-onnx.py: how the DistilBERT export ended
    exitcode        \* export-onnx.py: exit status of the run

serverVars == <<clock, phase, route, request, response, remembered>>
scriptVars == <<pc, files, out, exported, exitcode>>
vars == <<clock, phase, route, request, response, remembered,
          pc, files, out, exported, exitcode>>

----------------------------------------------------------------------------
(* Bounds *)

MaxPieces == 2        \* an exam name is made of at most this many pieces
MaxProbePieces == 1   \* the observer remembers names of at most this many pieces
MaxClock == 2         \* requests served in one behaviour

----------------------------------------------------------------------------
(* Python str operations *)

Lowercase == <<"a","b","c","d","e","f","g","h","i","j","k","l","m",
               "n","o","p","q","r","s","t","u","v","w","x","y","z">>
Uppercase == <<"A","B","C","D","E","F","G","H","I","J","K","L","M",
               "N","O","P","Q","R","S","T","U","V","W","X","Y","Z">>
Whitespace == {" ", "\t", "\n"}

LetterIndex(c, letters) ==
    IF \E i \in 1..Len(letters) : letters[i] = c
    THEN CHOOSE i \in 1..Len(letters) : letters[i] = c
    ELSE 0

lower_char(c) ==
    IF LetterIndex(c, Uppercase) # 0 THEN Lowercase[LetterIndex(c, Uppercase)] ELSE c

upper_char(c) ==
    IF LetterIndex(c, Lowercase) # 0 THEN Uppercase[LetterIndex(c, Lowercase)] ELSE c

lower(s) == [i \in 1..Len(s) |-> lower_char(s[i])]

RECURSIVE lstrip(_)
lstrip(s) ==
    IF s # <<>> /\ Head(s) \in Whitespace THEN lstrip(Tail(s)) ELSE s

RECURSIVE rstrip(_)
rstrip(s) ==
    IF s # <<>> /\ s[Len(s)] \in Whitespace THEN rstrip(SubSeq(s, 1, Len(s) - 1)) ELSE s

strip(s) == rstrip(lstrip(s))

replace(s, old, new) == [i \in 1..Len(s) |-> IF s[i] = old THEN new ELSE s[i]]

\* The longest prefix of s without whitespace.
RECURSIVE first_word(_)
first_word(s) ==
    IF s = <<>> \/ Head(s) \in Whitespace THEN <<>>
    ELSE <<Head(s)>> \o first_word(Tail(s))

RECURSIVE split(_)
split(s) ==
    LET t == lstrip(s)
        w == first_word(t)
    IN  IF t = <<>> THEN <<>>
        ELSE <<w>> \o split(SubSeq(t, Len(w) + 1, Len(t)))

capitalize(w) ==
    [i \in 1..Len(w) |-> IF i = 1 THEN upper_char(w[i]) ELSE lower_char(w[i])]

RECURSIVE join(_, _)
join(sep, words) ==
    IF words = <<>> THEN <<>>
    ELSE IF Len(words) = 1 THEN words[1]
    ELSE words[1] \o sep \o join(sep, Tail(words))

\* Python's `kw in s` for strings.
contains(kw, s) ==
    \E i \in 1..(Len(s) - Len(kw) + 1) : SubSeq(s, i, i + Len(kw) - 1) = kw

----------------------------------------------------------------------------
(* JSON values and request bodies *)

JStr(s) == [t |-> "str", s |-> s]
JNull == [t |-> "null", s |-> <<>>]
JNumber == [t |-> "number", s |-> <<>>]
JList == [t |-> "list", s |-> <<>>]

\* Exam names are built from these pieces: a keyword of each group in some
\* letter case, a word without keyword, and the separators.
Pieces ==
    { <<"s","b","i">>, <<"B","a","n","k">>, <<"S","S","C">>, <<"N","e","e","t">>,
      <<"g","a","t","e">>, <<"i","a","s">>, <<"U","P","S","C">>,
      <<"c","A","T">>, <<" ">>, <<"-">>, <<"_">> }

\* The pieces of the names an observer remembers.
ProbePieces == { <<"s","b","i">>, <<"S","S","C">>, <<" ">>, <<"-">> }

RECURSIVE Names(_, _)
Names(pieces, k) ==
    IF k = 0 THEN {<<>>}
    ELSE Names(pieces, k - 1) \cup {n \o p : n \in Names(pieces, k - 1), p \in pieces}

\* The parsed body of a POST: `kind` is what request.get_json() meets, `has`
\* and `examName` describe the "examName" member of a JSON object.
Body(kind, has, v) == [kind |-> kind, has |-> has, examName |-> v]

ObjectBodies(names) ==
    {Body("object", FALSE, JNull)}
    \cup {Body("object", TRUE, v) : v \in {JNull, JNumber, JList}}
    \cup {Body("object", TRUE, JStr(n)) : n \in names}

OtherBodies ==
    {Body(kind, FALSE, JNull) : kind \in {"malformed", "null", "list"}}

Bodies == ObjectBodies(Names(Pieces, MaxPieces)) \cup OtherBodies
ProbeBodies == ObjectBodies(Names(ProbePieces, MaxProbePieces)) \cup OtherBodies

NoBody == Body("none", FALSE, JNull)
NoResponse == [status |-> 0, body |-> [none |-> TRUE], raised |-> <<>>]
Nothing == [route |-> "none", request |-> NoBody, status |-> 0, body |-> [none |-> TRUE]]

----------------------------------------------------------------------------
(* The five requirement templates of generate_fallback_schema *)

Chars_Generated_schema_for ==
    <<"G","e","n","e","r","a","t","e","d"," ","s","c","h","e","m","a"," ","f","o","r"," ">>

Chars_Unknown_Exam == <<"U","n","k","n","o","w","n"," ","E","x","a","m">>

BankingKeywords ==
    { <<"i","b","p","s">>, <<"b","a","n","k">>, <<"s","b","i">>, <<"r","b","i">> }
SscKeywords == { <<"s","s","c">> }
MedicalEngineeringKeywords ==
    { <<"n","e","e","t">>, <<"j","e","e">>, <<"g","a","t","e">> }
UpscKeywords ==
    { <<"u","p","s","c">>, <<"c","i","v","i","l">>, <<"i","a","s">>, <<"i","p","s">> }

BankingRequirements ==
    << [type |-> "photograph",
        requirements |->
            [format |-> <<"JPG", "JPEG">>,
             size_kb |-> [min |-> 20, max |-> 50],
             dimensions |-> "200x230 pixels",
             color |-> "color",
             background |-> "light",
             notes |-> <<"Recent colored photograph", "Passport size",
                         "Clear face visibility">>]],
       [type |-> "signature",
        requirements |->
            [format |-> <<"JPG", "JPEG">>,
             size_kb |-> [min |-> 10, max |-> 20],
             dimensions |-> "140x60 pixels",
             background |-> "white",
             notes |-> <<"Clear signature in black ink", "Sign on white paper">>]],
       [type |-> "thumb_impression",
        requirements |->
            [format |-> <<"JPG", "JPEG">>,
             size_kb |-> [min |-> 10, max |-> 20],
             dimensions |-> "240x240 pixels",
             background |-> "white",
             notes |-> <<"Left thumb impression",
                         "Clear impression on white paper">>]] >>

SscRequirements ==
    << [type |-> "photograph",
        requirements |->
            [format |-> <<"JPEG">>,
             size_kb |-> [min |-> 4, max |-> 40],
             dimensions |-> "3.5x4.5 cm",
             color |-> "color",
             background |-> "light",
             notes |-> <<"Recent colored photograph", "Passport size">>]],
       [type |-> "signature",
        requirements |->
            [format |-> <<"JPEG">>,
             size_kb |-> [min |-> 1, max |-> 12],
             dimensions |-> "4x2 cm",
             background |-> "white",
             notes |-> <<"Clear signature in black ink">>]] >>

MedicalEngineeringRequirements ==
    << [type |-> "photograph",
        requirements |->
            [format |-> <<"JPG", "JPEG">>,
             size_kb |-> [min |-> 10, max |-> 200],
             dimensions |-> "Passport size",
             color |-> "color",
             background |-> "white",
             notes |-> <<"Recent photograph", "Face should be clearly visible",
                         "No sunglasses or hat">>]],
       [type |-> "signature",
        requirements |->
            [format |-> <<"JPG", "JPEG">>,
             size_kb |-> [min |-> 4, max |-> 30],
             background |-> "white",
             notes |-> <<"Clear signature in blue or black ink">>]] >>

UpscRequirements ==
    << [type |-> "photograph",
        requirements |->
            [format |-> <<"JPG", "JPEG">>,
             size_kb |-> [min |-> 3, max |-> 50],
             dimensions |-> "5x7 cm",
             color |-> "color",
             background |-> "white",
             notes |-> <<"Recent photograph", "Professional attire preferred",
                         "Clear face visibility">>]],
       [type |-> "signature",
        requirements |->
            [format |-> <<"JPG", "JPEG">>,
             size_kb |-> [min |-> 1, max |-> 10],
             dimensions |-> "4x2 cm",
             background |-> "white",
             notes |-> <<"Signature in black ink", "Sign on white paper">>]] >>

GenericRequirements ==
    << [type |-> "photograph",
        requirements |->
            [format |-> <<"JPG", "JPEG", "PNG">>,
             size_kb |-> [min |-> 10, max |-> 100],
             dimensions |-> "Passport size",
             color |-> "color",
             notes |-> <<"Recent photograph", "Clear face visibility">>]],
       [type |-> "signature",
        requirements |->
            [format |-> <<"JPG", "JPEG", "PNG">>,
             size_kb |-> [min |-> 5, max |-> 50],
             background |-> "white",
             notes |-> <<"Clear signature">>]] >>

BasicFallbackDocuments ==
    << [type |-> "photograph",
        requirements |->
            [format |-> <<"JPG", "JPEG">>,
             size_kb |-> [min |-> 10, max |-> 100],
             dimensions |-> "Passport size",
             color |-> "color",
             notes |-> <<"Recent photograph">>]] >>

----------------------------------------------------------------------------
(* generate_fallback_schema *)

\* any(keyword in lower_name for keyword in [...])
any_keyword_in(keywords, lower_name) ==
    \E keyword \in keywords : contains(keyword, lower_name)

\* normalized_name: ' '.join(word.capitalize() for word in
\*     exam_name.replace('-', ' ').replace('_', ' ').split())
normalized_name(exam_name) ==
    LET words == split(replace(replace(exam_name, "-", " "), "_", " "))
    IN  join(<<" ">>, [i \in 1..Len(words) |-> capitalize(words[i])])

\* Variant: the SSC check is made before the banking check.
requirements_for_ssc_first(lower_name) ==
    IF any_keyword_in(SscKeywords, lower_name) THEN SscRequirements
    ELSE IF any_keyword_in(BankingKeywords, lower_name) THEN BankingRequirements
    ELSE IF any_keyword_in(MedicalEngineeringKeywords, lower_name)
         THEN MedicalEngineeringRequirements
    ELSE IF any_keyword_in(UpscKeywords, lower_name) THEN UpscRequirements
    ELSE GenericRequirements

\* Variant: the SSC list also carries the banking list's thumb impression.
requirements_for_ssc_with_thumb(lower_name) ==
    IF any_keyword_in(BankingKeywords, lower_name) THEN BankingRequirements
    ELSE IF any_keyword_in(SscKeywords, lower_name)
         THEN Append(SscRequirements, BankingRequirements[3])
    ELSE IF any_keyword_in(MedicalEngineeringKeywords, lower_name)
         THEN MedicalEngineeringRequirements
    ELSE IF any_keyword_in(UpscKeywords, lower_name) THEN UpscRequirements
    ELSE GenericRequirements

\* The if / elif chain over lower_name.
requirements_for(lower_name) ==
    IF any_keyword_in(BankingKeywords, lower_name) THEN BankingRequirements
    ELSE IF any_keyword_in(SscKeywords, lower_name) THEN SscRequirements
    ELSE IF any_keyword_in(MedicalEngineeringKeywords, lower_name)
         THEN MedicalEngineeringRequirements
    ELSE IF any_keyword_in(UpscKeywords, lower_name) THEN UpscRequirements
    ELSE GenericRequirements

\* Variant: only the first request served gets its own template; the
\* list built for it is kept at module level and later requests get the
\* generic one.
generate_fallback_schema_first_only(exam_name) ==
    [exam |-> JStr(normalized_name(exam_name)),
     documents |-> IF clock = 0 THEN requirements_for(lower(exam_name))
                   ELSE GenericRequirements,
     extractedFrom |-> "Intelligent Fallback System",
     extractedAt |-> clock]

generate_fallback_schema(exam_name) ==
    [exam |-> JStr(normalized_name(exam_name)),
     documents |-> requirements_for(lower(exam_name)),
     extractedFrom |-> "Intelligent Fallback System",
     extractedAt |-> clock]

----------------------------------------------------------------------------
(* The request handlers *)

\* data.get('examName', default) on a JSON object.
dict_get(data, default) == IF data.has THEN data.examName ELSE default

\* An exception that leaves the handler: the framework answers 500.
Escaped(raised) ==
    [status |-> 500, body |-> [exception |-> raised[Len(raised)]], raised |-> raised]

\* The except branch: it reads `data` again to build the basic fallback.
basic_fallback(body, raised) ==
    IF body.kind = "malformed" THEN Escaped(raised \o <<"UnboundLocalError">>)
    ELSE IF body.kind # "object" THEN Escaped(raised \o <<"AttributeError">>)
    ELSE [status |-> 200,
          body |-> [success |-> TRUE,
                    schema |-> [exam |-> dict_get(body, JStr(Chars_Unknown_Exam)),
                                documents |-> BasicFallbackDocuments,
                                extractedFrom |-> "Basic Fallback",
                                extractedAt |-> clock],
                    message |-> "Generated basic fallback schema",
                    warning |-> "Error occurred during generation"],
          raised |-> raised]

\* Variant: the message is built from exam_name instead of schema['exam'].
generate_schema_message_from_input(body) ==
    IF body.kind = "malformed" THEN basic_fallback(body, <<"BadRequest">>)
    ELSE IF body.kind # "object" THEN basic_fallback(body, <<"AttributeError">>)
    ELSE IF dict_get(body, JStr(<<>>)).t # "str"
         THEN basic_fallback(body, <<"AttributeError">>)
    ELSE LET exam_name == strip(dict_get(body, JStr(<<>>)).s) IN
         IF exam_name = <<>>
         THEN [status |-> 400,
               body |-> [success |-> FALSE, error |-> "Exam name is required"],
               raised |-> <<>>]
         ELSE LET schema == generate_fallback_schema(exam_name) IN
              [status |-> 200,
               body |-> [success |-> TRUE,
                         schema |-> schema,
                         message |-> Chars_Generated_schema_for \o exam_name,
                         note |-> "Using intelligent pattern matching - real web extraction available via Node.js version"],
               raised |-> <<>>]

generate_schema(body) ==
    IF body.kind = "malformed" THEN basic_fallback(body, <<"BadRequest">>)
    ELSE IF body.kind # "object" THEN basic_fallback(body, <<"AttributeError">>)
    ELSE IF dict_get(body, JStr(<<>>)).t # "str"
         THEN basic_fallback(body, <<"AttributeError">>)
    ELSE LET exam_name == strip(dict_get(body, JStr(<<>>)).s) IN
         IF exam_name = <<>>
         THEN [status |-> 400,
               body |-> [success |-> FALSE, error |-> "Exam name is required"],
               raised |-> <<>>]
         ELSE LET schema == generate_fallback_schema(exam_name) IN
              [status |-> 200,
               body |-> [success |-> TRUE,
                         schema |-> schema,
                         message |-> Chars_Generated_schema_for \o schema.exam.s,
                         note |-> "Using intelligent pattern matching - real web extraction available via Node.js version"],
               raised |-> <<>>]

health_check ==
    [status |-> 200,
     body |-> [status |-> "OK",
               timestamp |-> clock,
               message |-> "Schema Extraction Server is running"],
     raised |-> <<>>]

----------------------------------------------------------------------------
(* The server: one request at a time is routed, handled and answered *)

ServerIdle ==
    /\ clock = 0
    /\ phase = "idle"
    /\ route = "none"
    /\ request = NoBody
    /\ response = NoResponse
    /\ remembered = Nothing

ScriptNotRun ==
    /\ pc = "not_run"
    /\ files = {}
    /\ out = <<>>
    /\ exported = "none"
    /\ exitcode = -1

Init == ServerIdle /\ ScriptNotRun

\* A POST /api/generate-schema arrives.
PostGenerateSchema(body) ==
    /\ phase = "idle"
    /\ clock < MaxClock
    /\ phase' = "pending"
    /\ route' = "generate-schema"
    /\ request' = body
    /\ UNCHANGED <<clock, response, remembered>>
    /\ UNCHANGED scriptVars

\* A GET /health arrives.
GetHealth ==
    /\ phase = "idle"
    /\ clock < MaxClock
    /\ phase' = "pending"
    /\ route' = "health"
    /\ request' = NoBody
    /\ UNCHANGED <<clock, response, remembered>>
    /\ UNCHANGED scriptVars

\* The view function of the route runs; time passes.
Handle ==
    /\ phase = "pending"
    /\ response' = IF route = "health" THEN health_check ELSE generate_schema(request)
    /\ phase' = "done"
    /\ clock' = clock + 1
    /\ UNCHANGED <<route, request, remembered>>
    /\ UNCHANGED scriptVars

\* The response without the values read from the clock.
WithoutTime(body) ==
    IF "schema" \in DOMAIN body THEN [body EXCEPT !.schema.extractedAt = 0]
    ELSE IF "timestamp" \in DOMAIN body THEN [body EXCEPT !.timestamp = 0]
    ELSE body

\* The response is sent; the request scope ends.
Reply ==
    /\ phase = "done"
    /\ phase' = "idle"
    /\ route' = "none"
    /\ request' = NoBody
    /\ response' = NoResponse
    /\ UNCHANGED <<clock, remembered>>
    /\ UNCHANGED scriptVars

\* As Reply, and an observer keeps the exchange for later comparison.
ReplyObserved ==
    /\ phase = "done"
    /\ remembered = Nothing
    /\ route = "health" \/ request \in ProbeBodies
    /\ remembered' = [route |-> route, request |-> request,
                      status |-> response.status, body |-> WithoutTime(response.body)]
    /\ phase' = "idle"
    /\ route' = "none"
    /\ request' = NoBody
    /\ response' = NoResponse
    /\ UNCHANGED clock
    /\ UNCHANGED scriptVars

Next ==
    \/ \E body \in Bodies : PostGenerateSchema(body)
    \/ GetHealth
    \/ Handle
    \/ Reply
    \/ ReplyObserved

Spec == Init /\ [][Next]_vars

----------------------------------------------------------------------------
(* scripts/export-onnx.py: one run of the script *)
(* The third-party library decides whether an import or main_export        *)
(* succeeds; pathlib's mkdir and touch act on `files`.                     *)

MODELS_DIR == "public/models"
DistilbertOnnx == "public/models/distilbert.onnx"
LayoutlmOnnx == "public/models/layoutlm.onnx"
DistilbertDir == "public/models/distilbert"
DistilbertModelFile == "public/models/distilbert/model.onnx"

\* What earlier runs of the script can have left on disk.
EarlierFiles ==
    {{}} \cup {{MODELS_DIR} \cup kept \cup exportDir :
                  kept \in SUBSET {DistilbertOnnx, LayoutlmOnnx},
                  exportDir \in {{}, {DistilbertDir}, {DistilbertDir, DistilbertModelFile}}}

ServerNotRun ==
    /\ clock = 0
    /\ phase = "not_run"
    /\ route = "none"
    /\ request = NoBody
    /\ response = NoResponse
    /\ remembered = Nothing

InitExport ==
    /\ ServerNotRun
    /\ pc = "imports"
    /\ files \in EarlierFiles
    /\ out = <<>>
    /\ exported = "none"
    /\ exitcode = -1

\* try: from optimum.onnx import export; from transformers import ...
ImportLibraries ==
    /\ pc = "imports"
    /\ \/ /\ out' = out \o <<"Required libraries found">>
          /\ pc' = "mkdir"
          /\ UNCHANGED exitcode
       \/ /\ out' = out \o <<"Missing libraries. Install with:",
                             "pip install transformers optimum[exporters] onnx onnxruntime">>
          /\ pc' = "exited"
          /\ exitcode' = 1
    /\ UNCHANGED <<files, exported>>
    /\ UNCHANGED serverVars

\* MODELS_DIR.mkdir(parents=True, exist_ok=True)
MakeModelsDir ==
    /\ pc = "mkdir"
    /\ files' = files \cup {MODELS_DIR}
    /\ pc' = "main"
    /\ UNCHANGED <<out, exported, exitcode>>
    /\ UNCHANGED serverVars

\* if __name__ == "__main__": the banner, then the call of export_distilbert()
Main ==
    /\ pc = "main"
    /\ out' = out \o <<"ONNX Model Export Script", "Exporting DistilBERT to ONNX...">>
    /\ pc' = "import_main_export"
    /\ UNCHANGED <<files, exported, exitcode>>
    /\ UNCHANGED serverVars

\* export_distilbert: from optimum.exporters.onnx import main_export
ImportMainExport ==
    /\ pc = "import_main_export"
    /\ pc' \in {"main_export", "except"}
    /\ UNCHANGED <<files, out, exported, exitcode>>
    /\ UNCHANGED serverVars

\* export_distilbert: main_export(model_name, output=str(MODELS_DIR / "distilbert"), ...)
\* The library writes into the directory it was given, or raises, possibly
\* after it has created that directory.
MainExport ==
    /\ pc = "main_export"
    /\ \/ /\ files' = files \cup {DistilbertDir, DistilbertModelFile}
          /\ pc' = "exported"
       \/ /\ files' \in {files, files \cup {DistilbertDir}}
          /\ pc' = "except"
    /\ UNCHANGED <<out, exported, exitcode>>
    /\ UNCHANGED serverVars

\* export_distilbert: the print after main_export, then the return
ExportSucceeded ==
    /\ pc = "exported"
    /\ out' = out \o <<"DistilBERT exported to " \o DistilbertOnnx>>
    /\ exported' = "ok"
    /\ pc' = "distilbert_returned"
    /\ UNCHANGED <<files, exitcode>>
    /\ UNCHANGED serverVars

\* Variant: the except branch prints and does not touch the placeholder.
ExportFailed_without_touch ==
    /\ pc = "except"
    /\ out' = out \o <<"Failed to export DistilBERT", "Creating placeholder file...">>
    /\ exported' = "failed"
    /\ pc' = "distilbert_returned"
    /\ UNCHANGED <<files, exitcode>>
    /\ UNCHANGED serverVars

\* Variant: the except branch touches the placeholder and ends the run.
ExportFailed_and_exit ==
    /\ pc = "except"
    /\ out' = out \o <<"Failed to export DistilBERT", "Creating placeholder file...">>
    /\ files' = files \cup {DistilbertOnnx}
    /\ exported' = "failed"
    /\ exitcode' = 1
    /\ pc' = "exited"
    /\ UNCHANGED serverVars

\* export_distilbert: the except branch, then the return
ExportFailed ==
    /\ pc = "except"
    /\ out' = out \o <<"Failed to export DistilBERT", "Creating placeholder file...">>
    /\ files' = files \cup {DistilbertOnnx}
    /\ exported' = "failed"
    /\ pc' = "distilbert_returned"
    /\ UNCHANGED exitcode
    /\ UNCHANGED serverVars

\* create_layoutlm_placeholder()
CreateLayoutlmPlaceholder ==
    /\ pc = "distilbert_returned"
    /\ files' = files \cup {LayoutlmOnnx}
    /\ out' = out \o <<"Creating LayoutLM placeholder...",
                        "Placeholder created at " \o LayoutlmOnnx>>
    /\ pc' = "layoutlm_returned"
    /\ UNCHANGED <<exported, exitcode>>
    /\ UNCHANGED serverVars

\* the closing prints; the interpreter exits with status 0
Finish ==
    /\ pc = "layoutlm_returned"
    /\ out' = out \o <<"Model export complete!", "Models location: " \o MODELS_DIR>>
    /\ exitcode' = 0
    /\ pc' = "done"
    /\ UNCHANGED <<files, exported>>
    /\ UNCHANGED serverVars

NextExport ==
    \/ ImportLibraries
    \/ MakeModelsDir
    \/ Main
    \/ ImportMainExport
    \/ MainExport
    \/ ExportSucceeded
    \/ ExportFailed
    \/ CreateLayoutlmPlaceholder
    \/ Finish

SpecExport == InitExport /\ [][NextExport]_vars

\* The interpreter runs the script to its end.
SpecExportFair == SpecExport /\ WF_vars(NextExport)

----------------------------------------------------------------------------
(* Properties of the server *)

\* A POST /api/generate-schema has been handled and its response is at hand.
Served == phase = "done" /\ route = "generate-schema"

\* The body carries no examName member, or an empty one.
InputMissing(body) == ~body.has \/ body.examName = JStr(<<>>)

\* The examName member is a string that is non-empty once trimmed.
NameGiven(body) ==
    /\ body.kind = "object"
    /\ body.has
    /\ body.examName.t = "str"
    /\ strip(body.examName.s) # <<>>

IsErrorEnvelope(r) ==
    /\ r.status = 400
    /\ DOMAIN r.body = {"success", "error"}
    /\ r.body.success = FALSE

IsSuccessEnvelope(r) ==
    /\ r.status = 200
    /\ "success" \in DOMAIN r.body
    /\ r.body.success = TRUE
    /\ "schema" \in DOMAIN r.body

\* C1: every POST whose examName is absent or empty is answered with status
\* 400 and the body {success: false, error}, without a schema.
C1_MissingInputGets400 ==
    (Served /\ InputMissing(request)) => IsErrorEnvelope(response)

\* C2: every POST whose examName is a string that is non-empty after trimming
\* is answered with status 200 and {success: true, schema, message, note};
\* the schema is generate_fallback_schema of the trimmed name, tagged
\* "Intelligent Fallback System", and the message is "Generated schema for "
\* followed by schema.exam.
C2_NameGivenGetsSchema ==
    (Served /\ NameGiven(request)) =>
        /\ response.status = 200
        /\ DOMAIN response.body = {"success", "schema", "message", "note"}
        /\ response.body.success = TRUE
        /\ WithoutTime(response.body).schema =
               [generate_fallback_schema(strip(request.examName.s)) EXCEPT !.extractedAt = 0]
        /\ response.body.schema.extractedAt = clock - 1
        /\ response.body.schema.extractedFrom = "Intelligent Fallback System"
        /\ response.body.message =
               Chars_Generated_schema_for \o response.body.schema.exam.s

C2_Witness ==
    /\ Served
    /\ NameGiven(request)
    /\ request.examName.s # strip(request.examName.s)
    /\ response.body.schema.exam.s # strip(request.examName.s)

\* C3: whenever an exception is raised while a POST is handled, the handler
\* returns the basic fallback {success: true, schema, message, warning} whose
\* schema is tagged "Basic Fallback" and has exactly one photograph document;
\* no exception leaves the handler.
C3_EveryExceptionGetsBasicFallback ==
    (Served /\ response.raised # <<>>) =>
        /\ IsSuccessEnvelope(response)
        /\ DOMAIN response.body = {"success", "schema", "message", "warning"}
        /\ response.body.schema.extractedFrom = "Basic Fallback"
        /\ Len(response.body.schema.documents) = 1
        /\ response.body.schema.documents[1].type = "photograph"

\* s contains kw when letter case is ignored.
ContainsIgnoringCase(kw, s) ==
    \E i \in 1..Len(s) :
        /\ i + Len(kw) - 1 <= Len(s)
        /\ lower(SubSeq(s, i, i + Len(kw) - 1)) = kw

NamesGroup(keywords, s) == \E kw \in keywords : ContainsIgnoringCase(kw, s)

\* The template the ordered keyword groups give to a name.
TemplateOf(s) ==
    CASE NamesGroup(BankingKeywords, s) -> BankingRequirements
      [] ~NamesGroup(BankingKeywords, s) /\ NamesGroup(SscKeywords, s) -> SscRequirements
      [] ~NamesGroup(BankingKeywords, s) /\ ~NamesGroup(SscKeywords, s)
           /\ NamesGroup(MedicalEngineeringKeywords, s) -> MedicalEngineeringRequirements
      [] ~NamesGroup(BankingKeywords, s) /\ ~NamesGroup(SscKeywords, s)
           /\ ~NamesGroup(MedicalEngineeringKeywords, s)
           /\ NamesGroup(UpscKeywords, s) -> UpscRequirements
      [] OTHER -> GenericRequirements

Templates ==
    {BankingRequirements, SscRequirements, MedicalEngineeringRequirements,
     UpscRequirements, GenericRequirements}

GroupsNamed(s) ==
    {K \in {BankingKeywords, SscKeywords, MedicalEngineeringKeywords, UpscKeywords} :
        NamesGroup(K, s)}

\* C4: the documents of a generated schema are exactly one of the five
\* templates, chosen by case-insensitive substring checks in the order
\* banking, SSC, medical/engineering, UPSC, generic, the first match winning.
C4_FirstMatchingGroupWins ==
    (Served /\ NameGiven(request)) =>
        /\ Cardinality(Templates) = 5
        /\ "schema" \in DOMAIN response.body
        /\ response.body.schema.documents \in Templates
        /\ response.body.schema.documents = TemplateOf(request.examName.s)

C4_Witness ==
    /\ Served
    /\ NameGiven(request)
    /\ Cardinality(GroupsNamed(request.examName.s)) = 2
    /\ SscKeywords \in GroupsNamed(request.examName.s)
    /\ response.body.schema.documents = BankingRequirements

DocumentTypes(documents) == [i \in 1..Len(documents) |-> documents[i].type]

\* C5: in every schema of a success envelope the documents are a non-empty
\* list of {type, requirements} records in the order photograph, signature,
\* thumb_impression; thumb_impression occurs only in the banking template,
\* as its third and last document.
C5_DocumentsInFixedOrder ==
    (phase = "done" /\ IsSuccessEnvelope(response)) =>
        LET documents == response.body.schema.documents IN
        /\ \A i \in 1..Len(documents) : DOMAIN documents[i] = {"type", "requirements"}
        /\ DocumentTypes(documents) \in
               { <<"photograph">>, <<"photograph", "signature">>,
                 <<"photograph", "signature", "thumb_impression">> }
        /\ (\E i \in 1..Len(documents) : documents[i].type = "thumb_impression")
               => documents = BankingRequirements

C5_Witness ==
    /\ phase = "done"
    /\ IsSuccessEnvelope(response)
    /\ Len(response.body.schema.documents) = 3
    /\ response.body.schema.documents[3].type = "thumb_impression"

\* The request at hand repeats the one the observer remembered.
Repeated ==
    /\ phase = "done"
    /\ remembered # Nothing
    /\ remembered.route = route
    /\ remembered.request = request

C10_ExamNeverEmpty ==
    (Served /\ NameGiven(request)) =>
        /\ "schema" \in DOMAIN response.body
        /\ response.body.schema.exam.s # <<>>
        /\ response.body.message # Chars_Generated_schema_for

----------------------------------------------------------------------------
(* Properties of the export script *)

DistilbertReturned == exported \in {"ok", "failed"}

RunEnded == pc \in {"done", "exited"}

\* C7: every run in which the export fails, at the import of the libraries
\* or in the export call, ends with public/models/distilbert.onnx on disk.
C7_PlaceholderAfterAnyFailure ==
    (RunEnded /\ exported # "ok") => DistilbertOnnx \in files

\* C7, amended: once export_distilbert has returned from its except branch,
\* public/models/distilbert.onnx is on disk, and it still is when the run ends.
C7_PlaceholderAfterFailedExport ==
    exported = "failed" => DistilbertOnnx \in files

C7_Witness ==
    /\ pc = "done"
    /\ exported = "failed"
    /\ DistilbertDir \notin files

\* C8: in every run that gets past the imports, create_layoutlm_placeholder
\* starts only after export_distilbert has returned, it runs after a
\* successful and after a failed export alike, and the run then ends with
\* public/models/layoutlm.onnx on disk.
C8_LayoutlmAfterDistilbert ==
    /\ [][pc' = "layoutlm_returned" =>
             (pc = "distilbert_returned" /\ DistilbertReturned /\ LayoutlmOnnx \in files')]_vars
    /\ [](pc = "done" => LayoutlmOnnx \in files)
    /\ (pc = "mkdir") ~> (pc = "done" /\ exitcode = 0 /\ LayoutlmOnnx \in files)

C8_Witness ==
    /\ pc = "done"
    /\ exported = "failed"
    /\ LayoutlmOnnx \in files
    /\ Len(out) > 6

\* C9: whenever export_distilbert has returned, after a success as well as
\* after a failure, public/models/distilbert.onnx is on disk; the message
\* "DistilBERT exported to public/models/distilbert.onnx" is printed only
\* with that file on disk.
C9_ReportedFileExists ==
    DistilbertReturned => DistilbertOnnx \in files

====
